---- MODULE Spec2Model ----
(***************************************************************************)
(* Samrddhi trading platform: order-management service, risk-management    *)
(* service, API gateway order entry point and the portfolio services.      *)
(*                                                                         *)
(* Every HTTP handler and the process_order task run on one asyncio event  *)
(* loop and contain no await between their first database read and their   *)
(* commit (process_order awaits only its initial sleep), so each one is a  *)
(* single atomic action here; what interleaves is the order in which the   *)
(* handlers and the scheduled tasks run.                                   *)
(* Money and quantities are Python floats in the source; the model uses    *)
(* integers, on which the arithmetic of the handlers is exact.             *)
(***************************************************************************)
EXTENDS Integers, Sequences, FiniteSets, TLC

\* ------------------------------------------------------------------ bounds
MaxOrders == 2
MaxAlerts == 2
MaxDeliveries == 2

\* the RateLimiter instance: the market-data service builds
\* RateLimiter(max_calls=300, time_window=300); a small instance is explored,
\* over the clock values 0..MaxTime
max_calls == 2
time_window == 2
MaxTime == 5

\* ------------------------------------------------------------ input domains
\* OrderRequest.price is Optional[float]: either None or a number.
NoPrice == [given |-> FALSE, value |-> 0]
Price(p) == [given |-> TRUE, value |-> p]

\* The request bodies submitted to POST /orders.  OrderRequest declares
\* quantity as a plain float and has no validator, so zero and negative
\* quantities pass the request model like any other number.
OrderRequests ==
    { [symbol |-> "AAPL", quantity |-> 2,  side |-> "buy",  price |-> Price(30000)],
      [symbol |-> "AAPL", quantity |-> 1,  side |-> "buy",  price |-> Price(30000)],
      [symbol |-> "AAPL", quantity |-> 1,  side |-> "sell", price |-> NoPrice],
      [symbol |-> "AAPL", quantity |-> 0,  side |-> "buy",  price |-> Price(30000)],
      [symbol |-> "AAPL", quantity |-> -1, side |-> "sell", price |-> Price(30000)] }

\* The bodies submitted to POST /check-trade-risk (price is a required float)
RiskRequests == { r \in OrderRequests : r.price.given }

\* The bodies submitted to POST /check-trade-risk while positions are held:
\* the above, a small purchase of a symbol that may already be held, and a
\* purchase of 40% of the account value.
RiskChecks ==
    RiskRequests
    \cup { [symbol |-> "MSFT", quantity |-> 10, side |-> "buy", price |-> Price(600)],
           [symbol |-> "AAPL", quantity |-> 1,  side |-> "buy", price |-> Price(40000)] }

\* order ids a caller may name, one of them never issued
OrderIds == 1..(MaxOrders + 1)

\* -------------------------------------------------------- program constants
\* risk-management-service: "if trade_value > 50000.0:  # Max position size"
MaxPositionSize == 50000
\* init_database.py: demo portfolio cash_balance=50000.0
InitialCash == 50000
\* init_database.py: demo portfolio total_value=100000.0
InitialTotalValue == 100000
\* portfolio-service: buying_power=account["cash_balance"] * 2  (2:1 margin)
MarginMultiplier == 2
\* portfolio-service (in-memory): demo_account "cash_balance": 45000.0
DemoCash == 45000
\* portfolio-service (in-memory): cash_balance of an account created on first use
NewAccountCash == 50000
\* portfolio-service: get_current_price returns the mock price 100.0
MockPrice == 100
\* risk-management-service (in-memory limits of demo_account): max_leverage=3.0
MaxLeverage == 3
\* risk-management-service (in-memory limits of demo_account): concentration_limit=0.25
ConcentrationLimit == [n |-> 1, d |-> 4]

\* OrderStatus values of shared/models.py
OrderStatus == {"pending", "submitted", "filled", "partially_filled",
                "cancelled", "rejected"}
TerminalStatus == {"filled", "cancelled", "rejected"}

VARIABLES
    orders,         \* the orders table: sequence of rows, the order id is the index
    tasks,          \* order ids whose process_order task is scheduled and has not run
    alerts,         \* the alerts table written by the risk service
    portfolio,      \* the Portfolio row of the demo user
    positions,      \* the positions table of the demo user (symbol -> row)
    portfolio_data, \* the in-memory ledger of the earlier portfolio service
    deliveries,     \* history: the position updates delivered so far, in order
    response,       \* the response of the last handler that ran
    alpaca,         \* the module globals of the Alpaca integration service
    revaluation,    \* the update_portfolio_value coroutine in flight, if any
    rate_limiter,   \* the RateLimiter object of the market-data service
    limiter_history,\* history: the clock and the times at which a call was granted
    health_checker, \* the HealthChecker object: its registered checks
    health_result   \* the result of the last run_checks

orderVars == <<orders, tasks, alerts>>
ledgerVars == <<portfolio, positions, portfolio_data, deliveries>>
auxVars == <<alpaca, revaluation, rate_limiter, limiter_history, health_checker, health_result>>
vars == <<orders, tasks, alerts, portfolio, positions, portfolio_data, deliveries, response,
          alpaca, revaluation, rate_limiter, limiter_history, health_checker, health_result>>

\* `order_request.price or 0.0`
PriceOrZero(price) == IF price.given /\ price.value # 0 THEN price.value ELSE 0

\* OrderModel(...) as built by create_order
NewOrder(order_request) ==
    [symbol |-> order_request.symbol,
     quantity |-> order_request.quantity,
     side |-> order_request.side,
     price |-> PriceOrZero(order_request.price),
     status |-> "pending",
     filled_quantity |-> 0,
     average_fill_price |-> 0]

\* ------------------------------------------------------------ exact numbers
\* Prices, averages and P&L are quotients; they are kept as reduced
\* fractions n/d with d > 0.
Abs(x) == IF x < 0 THEN -x ELSE x

RECURSIVE Gcd(_, _)
Gcd(a, b) == IF b = 0 THEN a ELSE Gcd(b, a % b)

Rat(n, d) ==
    LET g == Gcd(Abs(n), Abs(d))
        s == IF d < 0 THEN -1 ELSE 1
    IN  [n |-> (s * n) \div g, d |-> (s * d) \div g]

RInt(i) == [n |-> i, d |-> 1]
RAdd(x, y) == Rat(x.n * y.d + y.n * x.d, x.d * y.d)
RSub(x, y) == Rat(x.n * y.d - y.n * x.d, x.d * y.d)
RMul(x, y) == Rat(x.n * y.n, x.d * y.d)
RDiv(x, y) == Rat(x.n * y.d, x.d * y.n)
RZero == RInt(0)
\* x > y
RGt(x, y) == x.n * y.d > y.n * x.d

\* ------------------------------------------------------- the ledgers' inputs
\* Position updates (fills) sent to the portfolio services.  Each has an id,
\* which the senders know it by; the handlers receive symbol, quantity
\* (signed: a sale is negative) and price only.
FillEvents ==
    { [id |-> "f1", symbol |-> "AAPL", quantity |-> 100,  price |-> 10],
      [id |-> "f2", symbol |-> "AAPL", quantity |-> -150, price |-> 12],
      [id |-> "f3", symbol |-> "AAPL", quantity |-> -100, price |-> 12],
      [id |-> "f4", symbol |-> "AAPL", quantity |-> 50,   price |-> 12],
      [id |-> "f5", symbol |-> "MSFT", quantity |-> 100,  price |-> 600],
      [id |-> "f6", symbol |-> "AAPL", quantity |-> 0,    price |-> 10] }

\* account ids of the in-memory ledger: the demo account and one it has not seen
Accounts == {"demo_account", "acct2"}

\* prices sent to PUT /positions/{symbol}/price
MarkPrices == {10, 12}

EmptyMap == [x \in {} |-> x]

\* portfolio_data as the module defines it
DemoPortfolioData ==
    [demo_account |->
        [account_value |-> 125000,
         cash_balance |-> DemoCash,
         initial_value |-> 100000,
         positions |->
            [AAPL |-> [symbol |-> "AAPL", quantity |-> 100, avg_price |-> Rat(351, 2),
                       current_price |-> Rat(729, 4), side |-> "long"],
             TSLA |-> [symbol |-> "TSLA", quantity |-> 50, avg_price |-> Rat(1229, 5),
                       current_price |-> Rat(2389, 10), side |-> "long"],
             SPY  |-> [symbol |-> "SPY", quantity |-> 75, avg_price |-> Rat(2201, 5),
                       current_price |-> Rat(8903, 20), side |-> "long"]]]]

Init ==
    /\ orders = <<>>
    /\ tasks = {}
    /\ alerts = <<>>
    /\ portfolio = [cash_balance |-> InitialCash, account_value |-> InitialTotalValue,
                    daily_pnl |-> RZero, daily_pnl_percent |-> RZero]
    /\ positions = EmptyMap
    /\ portfolio_data = DemoPortfolioData
    /\ deliveries = <<>>
    /\ response = [op |-> "none"]
    /\ alpaca = [started |-> FALSE, enable_live |-> FALSE, alpaca_py_available |-> FALSE,
                 key |-> "", secret |-> "", requested |-> "paper",
                 trading_client |-> [set |-> FALSE, paper |-> TRUE],
                 is_demo_mode |-> TRUE, effective_env |-> "demo"]
    /\ revaluation = [pc |-> "idle", rows |-> EmptyMap, todo |-> {}, yielded |-> FALSE]
    /\ rate_limiter = [calls |-> <<>>]
    /\ limiter_history = [now |-> 0, granted |-> <<>>]
    /\ health_checker = [checks |-> {}]
    /\ health_result = [status |-> "none", checks |-> EmptyMap]

\* ------------------------------------------------- order-management service

\* What a run of POST /orders leaves in the database and on the event loop.
\* dbfail: "none" (all database calls succeed), "commit" (db.commit() raises:
\* nothing is persisted), "refresh" (the commit succeeded and db.refresh()
\* raises: the row is persisted and no task is created).
\* The demo user and its portfolio exist (init_database.py), so the two 404
\* exits are not taken.
CreateOrderBody(order_request, dbfail) ==
    /\ orders' = IF dbfail = "commit" THEN orders
                 ELSE Append(orders, NewOrder(order_request))
    /\ tasks' = IF dbfail = "none" THEN tasks \cup {Len(orders) + 1} ELSE tasks

\* the status code of POST /orders: any exception becomes a 500
CreateOrderCode(dbfail) == IF dbfail = "none" THEN 200 ELSE 500

\* POST /orders
create_order(order_request, dbfail) ==
    /\ Len(orders) < MaxOrders
    /\ CreateOrderBody(order_request, dbfail)
    /\ response' = [op |-> "create_order", code |-> CreateOrderCode(dbfail)]
    /\ UNCHANGED <<alerts, ledgerVars, auxVars>>

\* FillOrder with the assignment of filled_quantity left out
FillOrder_StatusOnly(order) ==
    [order EXCEPT !.status = "filled",
                  !.average_fill_price = order.price]

FillOrder_NoStatus(order) ==
    [order EXCEPT !.filled_quantity = order.quantity,
                  !.average_fill_price = order.price]

\* The row process_order writes: status, filled_quantity and
\* average_fill_price are set together and committed once.
FillOrder(order) ==
    [order EXCEPT !.status = "filled",
                  !.filled_quantity = order.quantity,
                  !.average_fill_price = order.price]

\* The task scheduled by create_order, after its sleep.  ok = FALSE: the
\* session or the commit raised; the exception is logged and swallowed.
process_order(order_id, ok) ==
    /\ order_id \in tasks
    /\ tasks' = tasks \ {order_id}
    /\ IF ok /\ order_id \in DOMAIN orders
       THEN orders' = [orders EXCEPT ![order_id] = FillOrder(orders[order_id])]
       ELSE UNCHANGED orders
    /\ UNCHANGED <<alerts, ledgerVars, response, auxVars>>

\* The row cancel_order writes
CancelOrder(order) == [order EXCEPT !.status = "cancelled"]

\* PUT /orders/{order_id}/cancel
cancel_order(order_id, ok) ==
    /\ IF order_id \notin DOMAIN orders
       THEN /\ response' = [op |-> "cancel_order", id |-> order_id, code |-> 404,
                            before |-> "none"]
            /\ UNCHANGED orders
       ELSE IF orders[order_id].status = "filled"
       THEN /\ response' = [op |-> "cancel_order", id |-> order_id, code |-> 400,
                            before |-> orders[order_id].status]
            /\ UNCHANGED orders
       ELSE IF ok
       THEN /\ orders' = [orders EXCEPT ![order_id] = CancelOrder(orders[order_id])]
            /\ response' = [op |-> "cancel_order", id |-> order_id, code |-> 200,
                            before |-> orders[order_id].status]
       ELSE /\ response' = [op |-> "cancel_order", id |-> order_id, code |-> 500,
                            before |-> orders[order_id].status]
            /\ UNCHANGED orders
    /\ UNCHANGED <<tasks, alerts, ledgerVars, auxVars>>

\* ------------------------------------------------------------- API gateway

\* POST /api/v1/orders: get_current_user, then proxy_request posts the body
\* to order-management POST /orders and relays its status code; no other
\* service is called.  link: "unauthorized" (the token is refused: 401),
\* "unreachable" (the request fails before the order service handles it:
\* 502), "timeout" (the order service handles the request and the gateway
\* gives up waiting: 504), "relay" (the answer is relayed).
gateway_create_order(order_data, dbfail, link) ==
    /\ Len(orders) < MaxOrders
    /\ IF link \in {"unauthorized", "unreachable"}
       THEN /\ UNCHANGED <<orders, tasks>>
            /\ response' = [op |-> "gateway_create_order",
                            code |-> IF link = "unauthorized" THEN 401 ELSE 502]
       ELSE /\ CreateOrderBody(order_data, dbfail)
            /\ response' = [op |-> "gateway_create_order",
                            code |-> IF link = "timeout" THEN 504
                                     ELSE CreateOrderCode(dbfail)]
    /\ UNCHANGED <<alerts, ledgerVars, auxVars>>

\* --------------------------------------------------- risk-management service

\* trade_value = trade.quantity * trade.price
TradeValue(quantity, price) == quantity * price

\* the decision of check_trade_risk
RiskApproved(quantity, price) == ~(TradeValue(quantity, price) > MaxPositionSize)

\* Alert(...) as check_trade_risk builds it; its message quotes trade_value
PositionSizeAlert(trade_value) ==
    [alert_type |-> "risk", severity |-> "high", title |-> "Position Size Warning",
     trade_value |-> trade_value]

\* AddAlert without the row
AddAlert_Dropped(table, alert) == table

\* db.add(alert); db.commit()
AddAlert(table, alert) == Append(table, alert)

\* POST /check-trade-risk.  dbfail: "none"; "commit" (db.commit() of the alert
\* raises: no row); "refresh" (the commit succeeded and loading alert.id for
\* the response, which the commit expired, raises: the row is there and the
\* answer is 500).  An approved check writes nothing, so no write of it fails.
check_trade_risk(trade, dbfail) ==
    /\ Len(alerts) < MaxAlerts
    /\ RiskApproved(trade.quantity, trade.price.value) => dbfail = "none"
    /\ LET trade_value == TradeValue(trade.quantity, trade.price.value)
       IN  IF ~RiskApproved(trade.quantity, trade.price.value)
           THEN /\ alerts' = IF dbfail = "commit" THEN alerts
                             ELSE AddAlert(alerts, PositionSizeAlert(trade_value))
                /\ response' = IF dbfail = "none"
                               THEN [op |-> "check_trade_risk", code |-> 200,
                                     approved |-> FALSE,
                                     reason |-> "Position size limit exceeded"]
                               ELSE [op |-> "check_trade_risk", code |-> 500]
           ELSE /\ UNCHANGED alerts
                /\ response' = [op |-> "check_trade_risk", code |-> 200,
                                approved |-> TRUE, reason |-> "Trade approved"]
    /\ UNCHANGED <<orders, tasks, ledgerVars, auxVars>>

\* AlertManager._get_alert_severity of shared/monitoring.py: the severity of
\* an alert from how far the value is over the threshold
get_alert_severity(metric, value, threshold) ==
    LET excess_ratio == RDiv(RSub(value, threshold), threshold)
    IN  IF RGt(excess_ratio, Rat(1, 2)) THEN "critical"
        ELSE IF RGt(excess_ratio, Rat(1, 4)) THEN "high"
        ELSE IF RGt(excess_ratio, Rat(1, 10)) THEN "medium"
        ELSE "low"

\* ------------------------------------------- portfolio service (database)

\* `all([symbol, quantity, price])`: a missing, empty or zero field is falsy
AllGiven(position_data) ==
    /\ position_data.symbol # ""
    /\ position_data.quantity # 0
    /\ position_data.price # 0

\* Position(...) as built for a symbol without a row
NewPosition(symbol, quantity, price) ==
    [symbol |-> symbol,
     side |-> "long",
     quantity |-> quantity,
     average_price |-> RInt(price),
     current_price |-> RInt(price),
     market_value |-> quantity * price,
     unrealized_pnl |-> RZero,
     unrealized_pnl_percent |-> RZero]

\* the positions table after create_or_update_position has applied an update
ApplyPositionUpdate(table, symbol, quantity, price) ==
    IF symbol \in DOMAIN table
    THEN LET existing_position == table[symbol]
             total_cost == RAdd(RMul(RInt(existing_position.quantity),
                                     existing_position.average_price),
                                RInt(quantity * price))
             total_quantity == existing_position.quantity + quantity
         IN  IF total_quantity <= 0
             THEN [s \in DOMAIN table \ {symbol} |-> table[s]]
             ELSE [table EXCEPT ![symbol] =
                      [existing_position EXCEPT
                          !.quantity = total_quantity,
                          !.average_price = RDiv(total_cost, RInt(total_quantity))]]
    ELSE [s \in DOMAIN table \cup {symbol} |->
             IF s = symbol THEN NewPosition(symbol, quantity, price) ELSE table[s]]

\* POST /position/{user_id}.  The HTTPException(400) raised for a missing
\* field is caught by the handler's own `except Exception`, which rolls back
\* and answers 500; so does a failing commit (ok = FALSE).
create_or_update_position(position_data, ok) ==
    /\ Len(deliveries) < MaxDeliveries
    /\ IF AllGiven(position_data) /\ ok
       THEN /\ positions' = ApplyPositionUpdate(positions, position_data.symbol,
                                                position_data.quantity, position_data.price)
            /\ response' = [op |-> "create_or_update_position", code |-> 200]
            /\ deliveries' = Append(deliveries,
                                    [id |-> position_data.id, ledger |-> "db", code |-> 200])
       ELSE /\ UNCHANGED positions
            /\ response' = [op |-> "create_or_update_position", code |-> 500]
            /\ deliveries' = Append(deliveries,
                                    [id |-> position_data.id, ledger |-> "db", code |-> 500])
    /\ UNCHANGED <<portfolio, portfolio_data, orderVars, auxVars>>

RECURSIVE RSum(_, _)
RSum(f, S) ==
    IF S = {} THEN RZero
    ELSE LET x == CHOOSE y \in S : TRUE IN RAdd(f[x], RSum(f, S \ {x}))

\* a position row as update_portfolio_value rewrites it
Revalued(position) ==
    LET unrealized_pnl == RMul(RSub(RInt(MockPrice), position.average_price),
                               RInt(position.quantity))
    IN  [position EXCEPT
            !.current_price = RInt(MockPrice),
            !.market_value = position.quantity * MockPrice,
            !.unrealized_pnl = unrealized_pnl,
            !.unrealized_pnl_percent =
                RMul(RDiv(unrealized_pnl,
                          RMul(position.average_price, RInt(position.quantity))),
                     RInt(100))]

\* `position.average_price * position.quantity` is the divisor of the percentage
RevalueRaises(table) ==
    \E s \in DOMAIN table : table[s].average_price.n = 0 \/ table[s].quantity = 0

\* the loaded rows after the loop of update_portfolio_value
RevaluedTable(table) == [s \in DOMAIN table |-> Revalued(table[s])]

\* the Portfolio row as update_portfolio_value rewrites it from the repriced rows
RevaluedPortfolio(row, revalued) ==
    LET total_market_value ==
            RSum([s \in DOMAIN revalued |-> RInt(revalued[s].market_value)],
                 DOMAIN revalued).n
        total_unrealized_pnl ==
            RSum([s \in DOMAIN revalued |-> revalued[s].unrealized_pnl],
                 DOMAIN revalued)
        account_value == row.cash_balance + total_market_value
    IN  [row EXCEPT
            !.account_value = account_value,
            !.daily_pnl = total_unrealized_pnl,
            !.daily_pnl_percent =
                IF account_value > 0
                THEN RMul(RDiv(total_unrealized_pnl, RInt(account_value)),
                          RInt(100))
                ELSE @]

\* update_portfolio_value: run as a background task after every accepted
\* position update and every 30 s by portfolio_update_task, so it may run at
\* any time.  get_current_price returns without suspending, so the
\* revaluation reads, rewrites and commits in one step.  A ZeroDivisionError
\* or a failing commit (ok = FALSE) is logged and rolled back.
update_portfolio_value(ok) ==
    /\ IF ok /\ ~RevalueRaises(positions)
       THEN /\ positions' = RevaluedTable(positions)
            /\ portfolio' = RevaluedPortfolio(portfolio, RevaluedTable(positions))
       ELSE UNCHANGED <<positions, portfolio>>
    /\ UNCHANGED <<portfolio_data, deliveries, response, orderVars, auxVars>>

\* The same coroutine step by step, as the event loop runs it.  Another
\* handler can run only while no coroutine holds the loop: before the
\* revaluation starts, after it ends, or while it is suspended in an await.

\* `await get_current_price(symbol)`: the price, and whether the awaited
\* coroutine suspends (it returns a constant without awaiting anything)
get_current_price_Remote(symbol) == [price |-> MockPrice, suspends |-> TRUE]
get_current_price(symbol) == [price |-> MockPrice, suspends |-> FALSE]

NoRevaluation == [pc |-> "idle", rows |-> EmptyMap, todo |-> {}, yielded |-> FALSE]

EventLoopFree == revaluation.pc = "idle" \/ revaluation.yielded

\* `positions = db.query(Position).filter(...).all()`
update_portfolio_value_read ==
    /\ revaluation.pc = "idle"
    /\ revaluation' = [pc |-> "pricing", rows |-> positions,
                       todo |-> DOMAIN positions, yielded |-> FALSE]
    /\ UNCHANGED <<orderVars, ledgerVars, response, alpaca, rate_limiter,
                   limiter_history, health_checker, health_result>>

\* one turn of the loop: the await, then the row is repriced in the session.
\* The ZeroDivisionError of the percentage ends the coroutine in its
\* `except`, which rolls back.
update_portfolio_value_price(symbol) ==
    /\ revaluation.pc = "pricing"
    /\ symbol \in revaluation.todo
    /\ LET position == revaluation.rows[symbol]
       IN  IF position.average_price.n = 0 \/ position.quantity = 0
           THEN revaluation' = NoRevaluation
           ELSE revaluation' =
                    [pc |-> "pricing",
                     rows |-> [revaluation.rows EXCEPT ![symbol] = Revalued(position)],
                     todo |-> revaluation.todo \ {symbol},
                     yielded |-> get_current_price(symbol).suspends]
    /\ UNCHANGED <<orderVars, ledgerVars, response, alpaca, rate_limiter,
                   limiter_history, health_checker, health_result>>

\* the Portfolio row is read and rewritten, and db.commit() writes the
\* repriced columns of the loaded rows.  ok = FALSE: the commit raises (as it
\* does for a loaded row that is no longer in the table) and is rolled back.
update_portfolio_value_commit(ok) ==
    /\ revaluation.pc = "pricing"
    /\ revaluation.todo = {}
    /\ IF ok /\ DOMAIN revaluation.rows \subseteq DOMAIN positions
       THEN /\ positions' =
                  [s \in DOMAIN positions |->
                      IF s \in DOMAIN revaluation.rows
                      THEN [positions[s] EXCEPT
                               !.current_price = revaluation.rows[s].current_price,
                               !.market_value = revaluation.rows[s].market_value,
                               !.unrealized_pnl = revaluation.rows[s].unrealized_pnl,
                               !.unrealized_pnl_percent =
                                   revaluation.rows[s].unrealized_pnl_percent]
                      ELSE positions[s]]
            /\ portfolio' = RevaluedPortfolio(portfolio, revaluation.rows)
       ELSE UNCHANGED <<positions, portfolio>>
    /\ revaluation' = NoRevaluation
    /\ UNCHANGED <<portfolio_data, deliveries, response, orderVars, alpaca, rate_limiter,
                   limiter_history, health_checker, health_result>>

\* the user ids a request can name: the demo user of init_database, who has
\* a Portfolio row, and a user the database has never seen
UserIds == {"demo", "unknown"}
HasPortfolio(user_id) == user_id = "demo"

\* GET /portfolio/{user_id}.  The HTTPException(404) raised for a user without
\* a Portfolio row is raised inside the handler's `try` and caught by its
\* `except Exception`, which answers 500.  Nothing is written.
get_portfolio(user_id) ==
    /\ response' = [op |-> "get_portfolio", user_id |-> user_id,
                    code |-> IF HasPortfolio(user_id) THEN 200 ELSE 500]
    /\ UNCHANGED <<ledgerVars, orderVars, auxVars>>

\* GET /risk-metrics/{user_id}, the same way.  has_metrics: a RiskMetrics
\* row of that user exists (risk_calculation_task writes them for users with
\* a portfolio).
get_risk_metrics(user_id, has_metrics) ==
    /\ has_metrics => HasPortfolio(user_id)
    /\ response' = [op |-> "get_risk_metrics", user_id |-> user_id,
                    code |-> IF has_metrics THEN 200 ELSE 500]
    /\ UNCHANGED <<ledgerVars, orderVars, auxVars>>

\* ------------------------------------------ portfolio service (in memory)

\* the account update_position creates for an account id it has not seen
NewAccount ==
    [account_value |-> 100000,
     cash_balance |-> NewAccountCash,
     initial_value |-> 100000,
     positions |-> EmptyMap]

\* account["positions"] after update_position
UpdatePositions(table, symbol, quantity, price) ==
    IF symbol \in DOMAIN table
    THEN LET existing == table[symbol]
             total_quantity == existing.quantity + quantity
             total_cost == RAdd(RMul(RInt(existing.quantity), existing.avg_price),
                                RInt(quantity * price))
         IN  IF total_quantity = 0
             THEN [s \in DOMAIN table \ {symbol} |-> table[s]]
             ELSE [table EXCEPT ![symbol] =
                      [symbol |-> symbol,
                       quantity |-> total_quantity,
                       avg_price |-> RDiv(total_cost, RInt(total_quantity)),
                       current_price |-> RInt(price),
                       side |-> IF total_quantity > 0 THEN "long" ELSE "short"]]
    ELSE [s \in DOMAIN table \cup {symbol} |->
             IF s = symbol
             THEN [symbol |-> symbol,
                   quantity |-> quantity,
                   avg_price |-> RInt(price),
                   current_price |-> RInt(price),
                   side |-> IF quantity > 0 THEN "long" ELSE "short"]
             ELSE table[s]]

\* the account after update_position: positions, then the cash balance
UpdateAccount(account, symbol, quantity, price) ==
    [account EXCEPT
        !.positions = UpdatePositions(account.positions, symbol, quantity, price),
        !.cash_balance = account.cash_balance - quantity * price]

\* POST /positions (in-memory service)
update_position(fill, account_id) ==
    /\ Len(deliveries) < MaxDeliveries
    /\ LET account == IF account_id \in DOMAIN portfolio_data
                      THEN portfolio_data[account_id]
                      ELSE NewAccount
       IN  portfolio_data' =
              [a \in DOMAIN portfolio_data \cup {account_id} |->
                  IF a = account_id
                  THEN UpdateAccount(account, fill.symbol, fill.quantity, fill.price)
                  ELSE portfolio_data[a]]
    /\ response' = [op |-> "update_position", code |-> 200]
    /\ deliveries' = Append(deliveries, [id |-> fill.id, ledger |-> account_id, code |-> 200])
    /\ UNCHANGED <<portfolio, positions, orderVars, auxVars>>

\* PUT /positions/{symbol}/price (in-memory service)
update_position_price(symbol, price, account_id) ==
    /\ IF account_id \in DOMAIN portfolio_data
          /\ symbol \in DOMAIN portfolio_data[account_id].positions
       THEN /\ portfolio_data' =
                  [portfolio_data EXCEPT
                      ![account_id].positions[symbol].current_price = RInt(price)]
            /\ response' = [op |-> "update_position_price", code |-> 200]
       ELSE /\ UNCHANGED portfolio_data
            /\ response' = [op |-> "update_position_price", code |-> 404]
    /\ UNCHANGED <<portfolio, positions, deliveries, orderVars, auxVars>>

\* buying_power as get_portfolio_status reports it
BuyingPower(cash_balance) == cash_balance * MarginMultiplier

\* ------------------------------------------------ Alpaca integration service

\* `trading_client = None`, and a TradingClient(key, secret, paper=...)
NoClient == [set |-> FALSE, paper |-> TRUE]
TradingClient(paper) == [set |-> TRUE, paper |-> paper]

\* values of TRADING_ENV / payload.environment, and of the key and the secret
\* (an unset environment variable is the empty string here: both are falsy)
EnvNames == {"paper", "live", "LIVE", "sandbox"}
KeyStrings == {"", " ", "PK1"}

\* str.lower() and str.strip() on the strings above
Lower(s) == IF s = "LIVE" THEN "live" ELSE s
Strip(s) == IF s = " " THEN "" ELSE s

\* the environment a requested one takes effect as: live without
\* ENABLE_LIVE_TRADING=true is demo
EffectiveEnv_Ungated(target_env, enable_live) == target_env
EffectiveEnv(target_env, enable_live) ==
    IF target_env = "live" /\ ~enable_live THEN "demo" ELSE target_env

\* _initialize_clients: the module globals it leaves.  ok = FALSE: building
\* the client or its get_account() raises.
initialize_clients(globals, current_env, api_key, api_secret, ok) ==
    LET target_env == IF current_env \in {"paper", "live"} THEN current_env ELSE "paper"
        eff_env == EffectiveEnv(target_env, globals.enable_live)
        demo == \/ ~(api_key # "" /\ api_secret # "")
                \/ eff_env = "demo"
                \/ ~globals.alpaca_py_available
        set == [globals EXCEPT !.key = api_key, !.secret = api_secret,
                               !.requested = current_env]
    IN  IF demo
        THEN [set EXCEPT !.trading_client = NoClient,
                         !.is_demo_mode = TRUE,
                         !.effective_env = eff_env]
        ELSE IF ok
        THEN [set EXCEPT !.trading_client = TradingClient(eff_env # "live"),
                         !.is_demo_mode = FALSE,
                         !.effective_env = eff_env]
        ELSE [set EXCEPT !.trading_client = NoClient,
                         !.is_demo_mode = TRUE,
                         !.effective_env = "demo"]

\* Import of the module: the environment is read, the globals are set and
\* _initialize_clients(trading_env, key, secret) is called.  A process can be
\* restarted at any time under another environment.
alpaca_startup(env, live_flag, available, api_key, api_secret, ok) ==
    /\ LET trading_env == IF Lower(env) \in {"paper", "live"} THEN Lower(env) ELSE "paper"
           effective_env == IF trading_env = "live" /\ ~live_flag THEN "demo" ELSE trading_env
           globals == [started |-> TRUE,
                       enable_live |-> live_flag,
                       alpaca_py_available |-> available,
                       key |-> api_key, secret |-> api_secret,
                       requested |-> trading_env,
                       trading_client |-> NoClient,
                       is_demo_mode |-> \/ ~(api_key # "" /\ api_secret # "")
                                        \/ effective_env = "demo"
                                        \/ ~available,
                       effective_env |-> effective_env]
       IN  alpaca' = initialize_clients(globals, trading_env, api_key, api_secret, ok)
    /\ response' = [op |-> "alpaca_startup", code |-> 0]
    /\ UNCHANGED <<orderVars, ledgerVars, revaluation, rate_limiter, limiter_history,
                   health_checker, health_result>>

\* POST /credentials.  token_ok = FALSE: ALPACA_ADMIN_TOKEN is set and the
\* X-Admin-Token header differs.
inject_credentials(payload, token_ok, ok) ==
    /\ alpaca.started
    /\ LET env_lower == Lower(payload.environment)
       IN  IF ~token_ok
           THEN /\ response' = [op |-> "inject_credentials", code |-> 401]
                /\ UNCHANGED alpaca
           ELSE IF env_lower = "live" /\ ~alpaca.enable_live
           THEN /\ response' = [op |-> "inject_credentials", code |-> 400]
                /\ UNCHANGED alpaca
           ELSE /\ alpaca' = initialize_clients(alpaca, env_lower, Strip(payload.api_key),
                                                Strip(payload.secret_key), ok)
                /\ response' = [op |-> "inject_credentials", code |-> 200]
    /\ UNCHANGED <<orderVars, ledgerVars, revaluation, rate_limiter, limiter_history,
                   health_checker, health_result>>

\* the "mode" inject_credentials reports
Mode(globals) ==
    IF globals.effective_env = "live" /\ ~globals.is_demo_mode THEN "live_trading"
    ELSE IF ~globals.is_demo_mode THEN "paper_trading"
    ELSE "demo"

CredentialPayloads ==
    [environment : EnvNames, api_key : KeyStrings, secret_key : KeyStrings]

\* ------------------------------------------------------- shared utilities

\* `[call_time for call_time in self.calls if call_time > cutoff]`
Pruned(calls, now) ==
    LET cutoff == now - time_window
    IN  SelectSeq(calls, LAMBDA call_time : call_time > cutoff)

\* `len(self.calls) < self.max_calls`
UnderLimit_Inclusive(calls) == Len(calls) <= max_calls
UnderLimit(calls) == Len(calls) < max_calls

\* RateLimiter.can_make_call, called when the clock has advanced by dt
can_make_call(dt) ==
    /\ limiter_history.now + dt <= MaxTime
    /\ LET now == limiter_history.now + dt
           calls == Pruned(rate_limiter.calls, now)
       IN  IF UnderLimit(calls)
           THEN /\ rate_limiter' = [calls |-> Append(calls, now)]
                /\ limiter_history' =
                       [now |-> now, granted |-> Append(limiter_history.granted, now)]
                /\ response' = [op |-> "can_make_call", result |-> TRUE]
           ELSE /\ rate_limiter' = [calls |-> calls]
                /\ limiter_history' = [limiter_history EXCEPT !.now = now]
                /\ response' = [op |-> "can_make_call", result |-> FALSE]
    /\ UNCHANGED <<orderVars, ledgerVars, alpaca, revaluation, health_checker,
                   health_result>>

\* --------------------------------------------------------- shared monitoring

\* the checks the services register, and what running one can do:
\* return a truthy or a falsy value, exceed its timeout, or raise
CheckNames == {"database", "redis", "robinhood"}
CheckOutcomes == {"truthy", "falsy", "timeout", "raise"}

\* HealthChecker.add_check: self.checks is a dict keyed by the name
add_check(name) ==
    /\ health_checker' = [checks |-> health_checker.checks \cup {name}]
    /\ response' = [op |-> "add_check", name |-> name]
    /\ UNCHANGED <<orderVars, ledgerVars, alpaca, revaluation, rate_limiter,
                   limiter_history, health_result>>

\* the entry run_checks writes for one check
CheckStatus(outcome) ==
    IF outcome = "truthy" THEN "healthy"
    ELSE IF outcome = "falsy" THEN "unhealthy"
    ELSE IF outcome = "timeout" THEN "timeout"
    ELSE "error"

\* HealthChecker.run_checks: the overall status starts as 'healthy' and is
\* set to 'unhealthy' in the two `except` branches only
run_checks(outcome) ==
    /\ health_result' =
           [status |-> IF \E name \in health_checker.checks :
                              outcome[name] \in {"timeout", "raise"}
                       THEN "unhealthy" ELSE "healthy",
            checks |-> [name \in health_checker.checks |-> CheckStatus(outcome[name])]]
    /\ response' = [op |-> "run_checks", outcome |-> outcome]
    /\ UNCHANGED <<orderVars, ledgerVars, alpaca, revaluation, rate_limiter,
                   limiter_history, health_checker>>

\* ------------------------------------------------------------ specification

\* Order entry, order processing and the risk service
Next ==
    \/ \E r \in OrderRequests, f \in {"none", "commit", "refresh"} : create_order(r, f)
    \/ \E r \in OrderRequests, f \in {"none", "commit", "refresh"},
          l \in {"unauthorized", "unreachable", "timeout", "relay"} :
          gateway_create_order(r, f, l)
    \/ \E id \in OrderIds, ok \in BOOLEAN : process_order(id, ok)
    \/ \E id \in OrderIds, ok \in BOOLEAN : cancel_order(id, ok)
    \/ \E t \in RiskRequests, f \in {"none", "commit", "refresh"} :
          check_trade_risk(t, f)

Spec == Init /\ [][Next]_vars

\* The two portfolio services
NextLedger ==
    \/ \E f \in FillEvents, ok \in BOOLEAN : create_or_update_position(f, ok)
    \/ \E ok \in BOOLEAN : update_portfolio_value(ok)
    \/ \E f \in FillEvents, a \in Accounts : update_position(f, a)
    \/ \E f \in FillEvents, p \in MarkPrices, a \in Accounts :
          update_position_price(f.symbol, p, a)

SpecLedger == Init /\ [][NextLedger]_vars

\* The risk service beside the database portfolio service, whose positions
\* and portfolio rows are what a risk check could read
NextRisk ==
    \/ \E t \in RiskChecks, f \in {"none", "commit", "refresh"} :
          check_trade_risk(t, f)
    \/ \E f \in FillEvents, ok \in BOOLEAN : create_or_update_position(f, ok)
    \/ \E ok \in BOOLEAN : update_portfolio_value(ok)

SpecRisk == Init /\ [][NextRisk]_vars

\* The order service whose process_order tasks find a working session, under
\* the scheduling of the event loop: a task that is ready to run is run
NextLive ==
    \/ \E r \in OrderRequests, f \in {"none", "commit", "refresh"} : create_order(r, f)
    \/ \E id \in OrderIds : process_order(id, TRUE)
    \/ \E id \in OrderIds, ok \in BOOLEAN : cancel_order(id, ok)

SpecLive ==
    /\ Init
    /\ [][NextLive]_vars
    /\ \A id \in OrderIds : WF_vars(process_order(id, TRUE))

\* The rate limiter under calls at non-decreasing times
NextLimiter ==
    \E dt \in 0..(time_window + 1) : can_make_call(dt)

SpecLimiter == Init /\ [][NextLimiter]_vars

\* The health checker of a service: registrations and GET /health
NextHealth ==
    \/ \E name \in CheckNames : add_check(name)
    \/ \E outcome \in [health_checker.checks -> CheckOutcomes] : run_checks(outcome)

SpecHealth == Init /\ [][NextHealth]_vars

\* The database portfolio service on its event loop: position updates, and
\* the revaluation coroutine step by step
NextLoop ==
    \/ \E f \in FillEvents, ok \in BOOLEAN :
          EventLoopFree /\ create_or_update_position(f, ok)
    \/ \E u \in UserIds : EventLoopFree /\ get_portfolio(u)
    \/ \E u \in UserIds, has_metrics \in BOOLEAN :
          EventLoopFree /\ get_risk_metrics(u, has_metrics)
    \/ update_portfolio_value_read
    \/ \E s \in DOMAIN positions : update_portfolio_value_price(s)
    \/ \E ok \in BOOLEAN : update_portfolio_value_commit(ok)

SpecLoop == Init /\ [][NextLoop]_vars

\* The Alpaca integration service: starts and restarts, credential injections
NextAlpaca ==
    \/ \E env \in EnvNames, live_flag \in BOOLEAN, available \in BOOLEAN,
          api_key \in KeyStrings, api_secret \in KeyStrings, ok \in BOOLEAN :
          alpaca_startup(env, live_flag, available, api_key, api_secret, ok)
    \/ \E payload \in CredentialPayloads, token_ok \in BOOLEAN, ok \in BOOLEAN :
          inject_credentials(payload, token_ok, ok)

SpecAlpaca == Init /\ [][NextAlpaca]_vars

\* ------------------------------------------------------------------ claims

\* C1: terminal states are absorbing: once an order's status is filled,
\* cancelled or rejected, no later step changes its status, filled_quantity
\* or average_fill_price (stated for the orders with a positive quantity).
C1_TerminalAbsorbing ==
    [][\A id \in DOMAIN orders :
          (orders[id].status \in TerminalStatus /\ orders[id].quantity > 0) =>
              /\ orders'[id].status = orders[id].status
              /\ orders'[id].filled_quantity = orders[id].filled_quantity
              /\ orders'[id].average_fill_price = orders[id].average_fill_price]_vars

\* C2: cancellation race: a step that cancels an order never changes its
\* filled_quantity, and no order is cancelled while its filled_quantity equals
\* its requested quantity.
C2_CancelRace ==
    [][\A id \in DOMAIN orders' :
          orders'[id].status = "cancelled" =>
              /\ orders'[id].filled_quantity # orders'[id].quantity
              /\ id \in DOMAIN orders =>
                    orders'[id].filled_quantity = orders[id].filled_quantity]_vars

\* C3: monotonicity: filled_quantity never decreases from one state to the
\* next and never exceeds the requested quantity.
C3_Monotonic ==
    [][\A id \in DOMAIN orders' :
          /\ orders'[id].filled_quantity <= orders'[id].quantity
          /\ id \in DOMAIN orders =>
                orders'[id].filled_quantity >= orders[id].filled_quantity]_vars

\* C4: in every reachable state an order whose status is filled has
\* filled_quantity equal to its quantity.
C4_FilledMeansFull ==
    \A id \in DOMAIN orders :
        orders[id].status = "filled" => orders[id].filled_quantity = orders[id].quantity

\* C4 witness: an order for a positive quantity was cancelled and then filled
\* by its process_order task, or filled directly
C4_Witness ==
    \E id \in DOMAIN orders :
        /\ orders[id].status = "filled"
        /\ orders[id].quantity > 0
        /\ id \notin tasks

\* C5: a cancel request on an order already in a terminal state (filled,
\* cancelled or rejected) never returns success: it is answered with an error.
C5_CancelTerminalIsError ==
    (response.op = "cancel_order" /\ response.before \in TerminalStatus)
        => response.code # 200

\* C6: risk-gated order creation: no persisted order is for a trade the risk
\* evaluator rejects, whichever entry point submitted it.
C6_RiskGated ==
    \A id \in DOMAIN orders : RiskApproved(orders[id].quantity, orders[id].price)

RECURSIVE OrdersNotional(_)
OrdersNotional(rows) ==
    IF rows = <<>> THEN 0
    ELSE TradeValue(Head(rows).quantity, Head(rows).price) + OrdersNotional(Tail(rows))

\* C7: no double-spend: the notionals of the accepted buy orders never add up
\* to more than the buying power available before the submissions.
C7_NoDoubleSpend ==
    OrdersNotional(SelectSeq(orders, LAMBDA o : o.side = "buy"))
        <= BuyingPower(InitialCash)

\* C8: fill application is all-or-nothing: a step that changes the
\* filled_quantity of an order (of positive quantity) at a non-zero fill price
\* also changes the position table and the cash balance.
C8_FillAllOrNothing ==
    [][\A id \in DOMAIN orders :
          (/\ orders[id].quantity > 0
           /\ orders'[id].filled_quantity # orders[id].filled_quantity
           /\ orders'[id].average_fill_price # 0)
          => (/\ positions' # positions
              /\ portfolio'.cash_balance # portfolio.cash_balance)]_vars

FillById(id) == CHOOSE f \in FillEvents : f.id = id

\* the sum of quantity x price over the updates a ledger has accepted
RECURSIVE AcceptedNotional(_, _)
AcceptedNotional(log, ledger) ==
    IF log = <<>> THEN 0
    ELSE (IF Head(log).ledger = ledger /\ Head(log).code = 200
          THEN FillById(Head(log).id).quantity * FillById(Head(log).id).price
          ELSE 0) + AcceptedNotional(Tail(log), ledger)

\* C9: conservation of cash: in each ledger the cash balance equals the
\* balance it started with minus the sum of quantity x price (signed) of the
\* fills applied to it.
C9_CashConserved ==
    /\ portfolio.cash_balance = InitialCash - AcceptedNotional(deliveries, "db")
    /\ \A a \in DOMAIN portfolio_data :
          portfolio_data[a].cash_balance =
              (IF a = "demo_account" THEN DemoCash ELSE NewAccountCash)
                  - AcceptedNotional(deliveries, a)

\* C10: idempotent fill application: delivering to a ledger a fill it has
\* already accepted leaves positions and cash as they were.
C10_IdempotentFill ==
    [][(/\ Len(deliveries') = Len(deliveries) + 1
        /\ \E i \in DOMAIN deliveries :
              /\ deliveries[i].id = deliveries'[Len(deliveries')].id
              /\ deliveries[i].ledger = deliveries'[Len(deliveries')].ledger
              /\ deliveries[i].code = 200)
       => (/\ positions' = positions
           /\ portfolio' = portfolio
           /\ portfolio_data' = portfolio_data)]_vars

\* C11: every change of an order's status is one of the legal transitions:
\* pending->submitted, pending->rejected, submitted|partially_filled->
\* partially_filled, submitted|partially_filled->filled, pending|submitted|
\* partially_filled->cancelled; in particular no order goes from pending
\* straight to filled.
C11_LegalTransitions ==
    [][\A id \in DOMAIN orders :
          orders'[id].status # orders[id].status =>
              <<orders[id].status, orders'[id].status>> \in
                  { <<"pending", "submitted">>, <<"pending", "rejected">>,
                    <<"submitted", "partially_filled">>,
                    <<"partially_filled", "partially_filled">>,
                    <<"submitted", "filled">>, <<"partially_filled", "filled">>,
                    <<"pending", "cancelled">>, <<"submitted", "cancelled">>,
                    <<"partially_filled", "cancelled">> }]_vars

\* C12: after any sequence of position updates the buying power of every
\* account (cash balance x margin multiplier) is at least zero.
C12_BuyingPowerNonNegative ==
    /\ BuyingPower(portfolio.cash_balance) >= 0
    /\ \A a \in DOMAIN portfolio_data :
          BuyingPower(portfolio_data[a].cash_balance) >= 0

\* the positions a ledger holds: the positions table of the database
\* service, or account["positions"] of the in-memory service
PositionsOf(ledger, table, data) ==
    IF ledger = "db" THEN table
    ELSE IF ledger \in DOMAIN data THEN data[ledger].positions
    ELSE EmptyMap

\* the signed quantity a ledger holds in a symbol, zero without a row
QuantityIn(table, symbol) ==
    IF symbol \in DOMAIN table THEN table[symbol].quantity ELSE 0

\* the average entry price of a position row of either service
AveragePriceOf(row) ==
    IF "average_price" \in DOMAIN row THEN row.average_price ELSE row.avg_price

\* C13: position lifecycle: an accepted update (of a non-zero quantity)
\* leaves no row for the symbol exactly when the resulting quantity is zero;
\* a resulting quantity that is not zero, negative included, is stored in the
\* row of the symbol.
C13_PositionLifecycle ==
    [][(/\ Len(deliveries') = Len(deliveries) + 1
        /\ deliveries'[Len(deliveries')].code = 200
        /\ FillById(deliveries'[Len(deliveries')].id).quantity # 0)
       => LET d == deliveries'[Len(deliveries')]
              f == FillById(d.id)
              after == PositionsOf(d.ledger, positions', portfolio_data')
              new == QuantityIn(PositionsOf(d.ledger, positions, portfolio_data),
                                f.symbol) + f.quantity
          IN  IF new = 0
              THEN f.symbol \notin DOMAIN after
              ELSE /\ f.symbol \in DOMAIN after
                   /\ after[f.symbol].quantity = new]_vars

\* C14: position flip: an accepted update that takes the quantity held in a
\* symbol across zero leaves a position of the remaining quantity whose
\* average price is the price of the update.
C14_PositionFlip ==
    [][(/\ Len(deliveries') = Len(deliveries) + 1
        /\ deliveries'[Len(deliveries')].code = 200)
       => LET d == deliveries'[Len(deliveries')]
              f == FillById(d.id)
              after == PositionsOf(d.ledger, positions', portfolio_data')
              old == QuantityIn(PositionsOf(d.ledger, positions, portfolio_data),
                                f.symbol)
              new == old + f.quantity
          IN  (old * new < 0) =>
                  /\ f.symbol \in DOMAIN after
                  /\ after[f.symbol].quantity = new
                  /\ AveragePriceOf(after[f.symbol]) = RInt(f.price)]_vars

\* C15: weighted cost basis: an accepted update in the direction of the
\* position held leaves quantity old + q and average price
\* (old x old_average + q x price) / (old + q).
C15_WeightedCostBasis ==
    [][(/\ Len(deliveries') = Len(deliveries) + 1
        /\ deliveries'[Len(deliveries')].code = 200)
       => LET d == deliveries'[Len(deliveries')]
              f == FillById(d.id)
              before == PositionsOf(d.ledger, positions, portfolio_data)
              after == PositionsOf(d.ledger, positions', portfolio_data')
              old == QuantityIn(before, f.symbol)
          IN  (old * f.quantity > 0) =>
                  /\ f.symbol \in DOMAIN after
                  /\ after[f.symbol].quantity = old + f.quantity
                  /\ AveragePriceOf(after[f.symbol]) =
                        RDiv(RAdd(RMul(RInt(old), AveragePriceOf(before[f.symbol])),
                                  RInt(f.quantity * f.price)),
                             RInt(old + f.quantity))]_vars

\* the signed quantity held in the symbol of a trade once the trade is done
PostTradeQuantity(table, trade) ==
    QuantityIn(table, trade.symbol)
        + (IF trade.side = "buy" THEN trade.quantity ELSE -trade.quantity)

\* quantity x price of the position in the symbol of a trade once it is done
PostTradeNotional(table, trade) ==
    Abs(PostTradeQuantity(table, trade)) * trade.price.value

\* the notional of all positions once a trade is done: the other symbols at
\* the current price of their rows, the symbol of the trade at its price
TotalNotionalAfter(table, trade) ==
    RAdd(RInt(PostTradeNotional(table, trade)),
         RSum([s \in DOMAIN table \ {trade.symbol} |->
                  RMul(RInt(Abs(table[s].quantity)), table[s].current_price)],
              DOMAIN table \ {trade.symbol}))

\* C16: notional check: a risk check answers "position size limit exceeded"
\* exactly when quantity x price of the resulting post-trade position in the
\* symbol (the position held plus the proposed trade) exceeds
\* max_position_size.
C16_PostTradeNotional ==
    [][\A t \in RiskChecks :
          check_trade_risk(t, "none") =>
              ((/\ ~response'.approved
                /\ response'.reason = "Position size limit exceeded")
               <=> PostTradeNotional(positions, t) > MaxPositionSize)]_vars

\* C17: checks in the order notional, leverage: a trade that passes the
\* notional check and takes the total position notional over
\* max_leverage x cash_balance is rejected for the leverage limit.
C17_LeverageAfterNotional ==
    [][\A t \in RiskChecks :
          (/\ check_trade_risk(t, "none")
           /\ PostTradeNotional(positions, t) <= MaxPositionSize
           /\ RGt(TotalNotionalAfter(positions, t),
                  RInt(MaxLeverage * portfolio.cash_balance)))
          => (/\ ~response'.approved
              /\ response'.reason = "Leverage limit exceeded")]_vars

\* C18: concentration check: a trade that passes the notional and the
\* leverage check and whose post-trade symbol notional is more than
\* concentration_limit of the account value is rejected for the
\* concentration limit.
C18_Concentration ==
    [][\A t \in RiskChecks :
          (/\ check_trade_risk(t, "none")
           /\ PostTradeNotional(positions, t) <= MaxPositionSize
           /\ ~RGt(TotalNotionalAfter(positions, t),
                   RInt(MaxLeverage * portfolio.cash_balance))
           /\ portfolio.account_value > 0
           /\ RGt(Rat(PostTradeNotional(positions, t), portfolio.account_value),
                  ConcentrationLimit))
          => (/\ ~response'.approved
              /\ response'.reason = "Concentration limit exceeded")]_vars

\* C19: the severity of every persisted risk alert is the one the excess
\* ratio (value - threshold) / threshold gives: over 50% critical, over 25%
\* high, over 10% medium, otherwise low.
C19_SeverityFromExcess ==
    \A i \in DOMAIN alerts :
        alerts[i].severity =
            get_alert_severity("position_size", RInt(alerts[i].trade_value),
                               RInt(MaxPositionSize))

C21_SilenceNotTerminal ==
    [][\A id \in tasks \ tasks' :
          orders'[id].status \in TerminalStatus =>
              orders'[id].status = orders[id].status]_vars

\* C22: validation precedes persistence: no order with quantity <= 0 is ever
\* in the orders table.
C22_ValidatedBeforePersisted ==
    \A id \in DOMAIN orders : orders[id].quantity > 0

\* C23: safe retry: a submission (of a positive quantity) that is answered
\* 500 has persisted no order and scheduled no task.
C23_SafeRetry ==
    [][(/\ response'.op \in {"create_order", "gateway_create_order"}
        /\ response'.code = 500)
       => (/\ Len(orders') = Len(orders) \/ orders'[Len(orders')].quantity <= 0
           /\ tasks' \subseteq tasks)]_vars

\* C24: the average_fill_price of an order is the quantity-weighted average
\* of the prices of the fills applied to it; fill prices are positive, so an
\* order (of positive quantity) with a filled quantity has a positive
\* average_fill_price.
C24_AverageOfFills ==
    \A id \in DOMAIN orders :
        (orders[id].quantity > 0 /\ orders[id].filled_quantity > 0)
            => orders[id].average_fill_price > 0

\* a client that trades live, or globals that say so
HoldsLiveClient ==
    /\ alpaca.trading_client.set
    /\ \/ ~alpaca.trading_client.paper
       \/ (~alpaca.is_demo_mode /\ alpaca.effective_env = "live")

C26_Serializable ==
    [][revaluation.pc = "pricing" =>
          IF revaluation'.pc = "idle" /\ revaluation.todo = {}
          THEN \/ positions' = positions /\ portfolio' = portfolio
               \/ /\ positions' = RevaluedTable(positions)
                  /\ portfolio' = RevaluedPortfolio(portfolio, RevaluedTable(positions))
          ELSE positions' = positions /\ portfolio' = portfolio]_vars

C26_Witness ==
    /\ revaluation.pc = "pricing"
    /\ revaluation.todo = {}
    /\ DOMAIN revaluation.rows # {}
    /\ Len(deliveries) > 0
    /\ revaluation.rows # positions

\* C27: client errors of the portfolio service are reported as such: a
\* position update with a missing symbol, quantity or price is answered 400,
\* and get_portfolio / get_risk_metrics for an unknown user are answered 404.
C27_ClientErrorsReported ==
    /\ (/\ response.op = "create_or_update_position"
        /\ Len(deliveries) > 0
        /\ \E f \in FillEvents :
               f.id = deliveries[Len(deliveries)].id /\ ~AllGiven(f))
           => response.code = 400
    /\ (/\ response.op \in {"get_portfolio", "get_risk_metrics"}
        /\ ~HasPortfolio(response.user_id))
           => response.code = 404

\* C28: liveness of order processing: an order accepted by create_order (its
\* process_order task is scheduled) eventually has a terminal status, whether
\* or not a cancel request arrives in between.
C28_EventuallyTerminal ==
    \A id \in OrderIds :
        (id \in tasks) ~> (id \in DOMAIN orders /\ orders[id].status \in TerminalStatus)

C28_Witness ==
    \E id \in DOMAIN orders :
        /\ id \notin tasks
        /\ orders[id].status = "filled"
        /\ response.op = "cancel_order"
        /\ response.id = id
        /\ response.code = 200

\* the calls granted at the times lo..hi
GrantedIn(lo, hi) ==
    Cardinality({i \in DOMAIN limiter_history.granted :
                    lo <= limiter_history.granted[i] /\ limiter_history.granted[i] <= hi})

\* the limiter holds one timestamp for each call it granted within the
\* window, and nothing else: a granted call recorded one, a refused call none
RecordsGrantedOnly ==
    rate_limiter.calls =
        SelectSeq(limiter_history.granted,
                  LAMBDA t : t > limiter_history.now - time_window)

\* C29 (amended): sliding-window rate limit: within any half-open interval of
\* length time_window, (a, a + time_window] or [a, a + time_window), at most
\* max_calls invocations returned True; a granted call records exactly one
\* timestamp and a refused call none.
C29_HalfOpenWindowLimit ==
    /\ \A a \in (0 - time_window)..MaxTime :
           /\ GrantedIn(a + 1, a + time_window) <= max_calls
           /\ GrantedIn(a, a + time_window - 1) <= max_calls
    /\ RecordsGrantedOnly

C29_Witness ==
    /\ response = [op |-> "can_make_call", result |-> FALSE]
    /\ Len(limiter_history.granted) > max_calls
    /\ GrantedIn(limiter_history.now - time_window + 1, limiter_history.now) = max_calls

\* C29: sliding-window rate limit: within any interval of length time_window,
\* [a, a + time_window], at most max_calls invocations returned True; a
\* granted call records exactly one timestamp and a refused call none.
C29_WindowLimit ==
    /\ \A a \in (0 - time_window)..MaxTime :
           GrantedIn(a, a + time_window) <= max_calls
    /\ RecordsGrantedOnly

\* C30: health aggregation: the result of run_checks has one entry for every
\* registered check, and its overall status is 'healthy' only if every entry is
\* 'healthy' (a falsy result, a timeout or an exception makes it 'unhealthy').
C30_HealthyOnlyIfAll ==
    response.op = "run_checks" =>
        /\ DOMAIN health_result.checks = health_checker.checks
        /\ health_result.status = "healthy" =>
               \A name \in DOMAIN health_result.checks :
                   health_result.checks[name] = "healthy"

====
